---- MODULE Spec2Model ----
(***************************************************************************)
(* State-machine model of the three timecode engines of score-addon-ltc:   *)
(*   LTCInput      (LTC decoder,   src/unnamed/part_000)                   *)
(*   LTCGenerator  (LTC encoder,   src/LTC/LTC.hpp, src/LTC/LTC.cpp)       *)
(*   XWaxDVS       (DVS decoder,   src/LTC/XWax.hpp)                       *)
(* Each C++ object is one record-valued variable whose fields carry the    *)
(* member names of the source.  libltc and xwax are external: the model    *)
(* keeps what the engines can observe of them (the decoder's frame queue,  *)
(* the encoder's byte output, the correlator's pitch/position readings)    *)
(* and draws their answers from small sets.                                *)
(*                                                                         *)
(* Numbers: frame rates are in hundredths of a frame per second (2997 is   *)
(* 29.97), pitch is in thousandths, a double time value is the exact       *)
(* fraction num/den scaled by the unit multiplier mul.                     *)
(***************************************************************************)
EXTENDS Integers, Sequences, FiniteSets, TLC

VARIABLES
  engine,   \* the engine instance this behaviour drives
  alive,    \* FALSE once the destructor has run
  clock,    \* std::chrono::steady_clock, in ms
  heap,     \* handles owned by external libraries: [live, bad]
  op,       \* the last operation applied and what it was given (history)
  fed,      \* sum of the frame counts of the ticks delivered, at a sample rate
            \* above 1, since the last prepare or reconfigure call (history)
  inp,      \* the LTCInput object
  codec,    \* the libltc decoder behind inp.m_decoder
  gen,      \* the LTCGenerator object
  enc,      \* the libltc encoder behind gen.m_encoder
  run,      \* where LTCGenerator::operator() stands: [pc, frames, tempo, frame]
  tally,    \* encode_byte and inc_timecode calls made so far, and their tempos (history)
  audio,    \* outputs.audio as written by the current or last tick
  dvs,      \* the XWaxDVS object
  deck,     \* the xwax timecoder behind dvs.m_timecoder and the record it hears
  events,   \* disturbances so far: calls and ticks other than a nominal tick
  since,    \* ticks submitted to the correlator since it was last built (history)
  steady,   \* length of the current run of nominal readings (history)
  window,   \* quality scores of the latest 32 ticks since the correlator was
            \* last built, oldest first (history)
  twin      \* a second LTCInput, given the same calls at times of its own

inputvars == <<fed, inp, codec>>

genvars == <<gen, enc, run, tally, audio>>

dvsvars == <<dvs, deck, events, since, steady, window>>

vars == <<engine, alive, clock, heap, op, inputvars, genvars, dvsvars, twin>>

(***************************************************************************)
(* Bounds of the model.                                                    *)
(***************************************************************************)
MaxClock == 501
MaxPosition == 3
MaxDecoded == 2
MaxHandles == 2
MaxBytes == 25
MaxEvents == 2
MaxPositionMs == 350

(***************************************************************************)
(* External handles (ltc_decoder_create/free and friends).  An allocator   *)
(* hands out the smallest id that is not live; releasing an id that is not *)
(* live is recorded in bad (a double release).                             *)
(***************************************************************************)
Null == 0
HandleIds == 1..MaxHandles

CanAlloc(h) == h.live # HandleIds

Alloc(h) == CHOOSE i \in HandleIds \ h.live : \A j \in HandleIds \ h.live : i <= j

Acquire(h) == [h EXCEPT !.live = h.live \cup {Alloc(h)}]

Release(h, id) ==
  IF id \in h.live
    THEN [h EXCEPT !.live = h.live \ {id}]
    ELSE [h EXCEPT !.bad = TRUE]

(***************************************************************************)
(* LTCInput: enumerations and the values the environment supplies.         *)
(***************************************************************************)
FrameRate == {"FPS_24", "FPS_25", "FPS_2997", "FPS_30", "Auto"}

OutputFormat == {"Seconds", "Milliseconds", "Microseconds", "Nanoseconds", "Flicks"}

\* Sample rates handed to prepare(): 1 is the largest rate that disables the engine.
Rates == {1, 48000}

\* inputs.queue_size, range 8..256, default 32.
QueueSizes == {8, 32}

\* tick frame counts.
FrameCounts == {0, 1, 2}

\* Clock advances between two operations, in ms: exactly the timeout, and the
\* first value beyond it.
TimeSteps == {500, 501}

LTCFrame(h, m, s, ft, fu, df, rev, vol) ==
  [hours |-> h, mins |-> m, secs |-> s, frame_tens |-> ft, frame_units |-> fu,
   dfbit |-> df, reverse |-> rev, volume |-> vol]

\* LTCFrameExt m_last_frame{}: value-initialised.
ZeroFrame == LTCFrame(0, 0, 0, 0, 0, 0, 0, 0)

\* A frame of the stream 00:00:10:nn.
StreamFrame(n, df) == LTCFrame(0, 0, 10, n \div 10, n % 10, df, 0, -6)

\* Frames the codec may decode: 00:00:10 at frame numbers 0, 23, 24, 25 without
\* the drop-frame bit, at 23, 24, 25 with it, and one reversed frame at 01:02:03:10.
Frames ==
  { StreamFrame(n, 0) : n \in {0, 23, 24, 25} }
  \cup { StreamFrame(n, 1) : n \in {23, 24, 25} }
  \cup { LTCFrame(1, 2, 3, 1, 0, 0, 1, -20) }

FrameNumber(f) == f.frame_tens * 10 + f.frame_units

\* What one ltc_decoder_write_double call may add to the codec's queue: nothing,
\* one frame, or a run of up to MaxDecoded consecutive frames of one stream.
DecodedSeqs ==
  {<<>>}
  \cup { <<f>> : f \in Frames }
  \cup { [i \in 1..k |-> StreamFrame(n + i - 1, df)] :
           k \in 2..MaxDecoded, n \in {23, 24}, df \in {0, 1} }

\* inputs.offset / inputs.format / inputs.framerate as a tick reads them: the
\* defaults, an explicit 25 fps, and a setting that differs in all three.
DefaultInputs == [offset |-> 0, format |-> "Seconds", framerate |-> "Auto"]

TickInputs ==
  { DefaultInputs,
    [offset |-> 0, format |-> "Seconds", framerate |-> "FPS_25"],
    [offset |-> 5, format |-> "Milliseconds", framerate |-> "FPS_2997"] }

(***************************************************************************)
(* LTCInput                                                                *)
(***************************************************************************)
NoCodec == [apv |-> 0, queue_len |-> 0, queue |-> <<>>, write_off |-> 0, write_len |-> 0]

\* ltc_decoder_create(apv, queue_size): a fresh decoder with an empty queue.
ltc_decoder_create(apv, queue_size) ==
  [apv |-> apv, queue_len |-> queue_size, queue |-> <<>>, write_off |-> 0, write_len |-> 0]

\* ltc_decoder_write_double(decoder, buf, size, posinfo): the codec consumes
\* size samples stamped from posinfo on and queues the frames it decoded.
ltc_decoder_write_double(c, decoded, size, posinfo) ==
  [c EXCEPT !.queue = @ \o decoded, !.write_off = posinfo, !.write_len = size]

LTCInput_outputs_init ==
  [timecode |-> [num |-> 0, den |-> 1, mul |-> 1], valid |-> FALSE, frame_rate |-> 3000,
   drop_frame |-> FALSE, reverse |-> FALSE, volume |-> -96]

LTCInput_init ==
  [m_setup_rate |-> 0, queue_size |-> 32, m_decoder |-> Null, m_sample_position |-> 0,
   m_last_frame |-> ZeroFrame, m_last_valid_time |-> 0, outputs |-> LTCInput_outputs_init]

\* Mutant of reinit_decoder: the sample position survives the rebuild.
reinit_decoder_keeps_position(self, cdc, h, now) ==
  LET had == self.m_decoder # Null
      h1 == IF had THEN Release(h, self.m_decoder) ELSE h
      ev1 == IF had THEN << <<"free", self.m_decoder>> >> ELSE <<>>
      s1 == [self EXCEPT !.m_decoder = Null]
      c1 == IF had THEN NoCodec ELSE cdc
  IN IF self.m_setup_rate <= 1
       THEN [self |-> s1, codec |-> c1, heap |-> h1, ev |-> ev1]
       ELSE [self |-> [s1 EXCEPT !.m_decoder = Alloc(h1),
                                 !.m_last_valid_time = now],
             codec |-> ltc_decoder_create(self.m_setup_rate \div 30, self.queue_size),
             heap |-> Acquire(h1),
             ev |-> Append(ev1, <<"create", Alloc(h1)>>)]

\* reinit_decoder(): the result is the object, the codec, the heap and the
\* resource calls made, in order.
\* reinit_decoder that returns once it has freed a decoder.
reinit_decoder_returns_after_free(self, cdc, h, now) ==
  IF self.m_decoder # Null
    THEN [self |-> [self EXCEPT !.m_decoder = Null], codec |-> NoCodec,
          heap |-> Release(h, self.m_decoder), ev |-> << <<"free", self.m_decoder>> >>]
  ELSE IF self.m_setup_rate <= 1
    THEN [self |-> self, codec |-> cdc, heap |-> h, ev |-> <<>>]
  ELSE [self |-> [self EXCEPT !.m_decoder = Alloc(h),
                              !.m_sample_position = 0,
                              !.m_last_valid_time = now],
        codec |-> ltc_decoder_create(self.m_setup_rate \div 30, self.queue_size),
        heap |-> Acquire(h),
        ev |-> << <<"create", Alloc(h)>> >>]

reinit_decoder(self, cdc, h, now) ==
  LET had == self.m_decoder # Null
      h1 == IF had THEN Release(h, self.m_decoder) ELSE h
      ev1 == IF had THEN << <<"free", self.m_decoder>> >> ELSE <<>>
      s1 == [self EXCEPT !.m_decoder = Null]
      c1 == IF had THEN NoCodec ELSE cdc
  IN IF self.m_setup_rate <= 1
       THEN [self |-> s1, codec |-> c1, heap |-> h1, ev |-> ev1]
       ELSE [self |-> [s1 EXCEPT !.m_decoder = Alloc(h1),
                                 !.m_sample_position = 0,
                                 !.m_last_valid_time = now],
             codec |-> ltc_decoder_create(self.m_setup_rate \div 30, self.queue_size),
             heap |-> Acquire(h1),
             ev |-> Append(ev1, <<"create", Alloc(h1)>>)]

\* prepare(setup)
LTCInput_prepare(self, cdc, h, now, rate) ==
  reinit_decoder([self EXCEPT !.m_setup_rate = rate], cdc, h, now)

\* inputs.queue_size.update(self)
queue_size_update(self, cdc, h, now, q) ==
  reinit_decoder([self EXCEPT !.queue_size = q], cdc, h, now)

\* ~LTCInput()
LTCInput_dtor(self, cdc, h) ==
  IF self.m_decoder # Null
    THEN [self |-> [self EXCEPT !.m_decoder = Null], codec |-> NoCodec,
          heap |-> Release(h, self.m_decoder), ev |-> << <<"free", self.m_decoder>> >>]
    ELSE [self |-> self, codec |-> cdc, heap |-> h, ev |-> <<>>]

get_frame_rate_from_standard(standard, drop_frame) ==
  CASE standard \in {"LTC_TV_525_60", "LTC_TV_1125_60"} -> IF drop_frame THEN 2997 ELSE 3000
    [] standard = "LTC_TV_625_50" -> 2500
    [] standard = "LTC_TV_FILM_24" -> 2400
    [] OTHER -> 3000

\* Mutant of detect_standard: the frame-number thresholds are one too high.
detect_standard_off_by_one(framerate, frame) ==
  IF framerate # "Auto"
    THEN CASE framerate = "FPS_24" -> "LTC_TV_FILM_24"
           [] framerate = "FPS_25" -> "LTC_TV_625_50"
           [] OTHER -> "LTC_TV_525_60"
    ELSE IF frame.dfbit # 0 THEN "LTC_TV_525_60"
    ELSE LET max_frame == frame.frame_tens * 10 + frame.frame_units
         IN IF max_frame > 25 THEN "LTC_TV_525_60"
            ELSE IF max_frame > 24 THEN "LTC_TV_625_50"
            ELSE "LTC_TV_FILM_24"

detect_standard(framerate, frame) ==
  IF framerate # "Auto"
    THEN CASE framerate = "FPS_24" -> "LTC_TV_FILM_24"
           [] framerate = "FPS_25" -> "LTC_TV_625_50"
           [] OTHER -> "LTC_TV_525_60"
    ELSE IF frame.dfbit # 0 THEN "LTC_TV_525_60"
    ELSE LET max_frame == frame.frame_tens * 10 + frame.frame_units
         IN IF max_frame >= 25 THEN "LTC_TV_525_60"
            ELSE IF max_frame >= 24 THEN "LTC_TV_625_50"
            ELSE "LTC_TV_FILM_24"

get_configured_fps(framerate) ==
  CASE framerate = "FPS_24" -> 2400
    [] framerate = "FPS_25" -> 2500
    [] framerate = "FPS_2997" -> 2997
    [] framerate = "FPS_30" -> 3000
    [] OTHER -> 3000

\* ltc_frame_to_time(&tc, &frame, 0)
ltc_frame_to_time(frame) ==
  [hours |-> frame.hours, mins |-> frame.mins, secs |-> frame.secs,
   frame |-> frame.frame_tens * 10 + frame.frame_units]

\* to_seconds(tc, fps): h*3600 + m*60 + s + frame/fps + offset, as num/den.
to_seconds(tc, fps, offset) ==
  [num |-> (tc.hours * 3600 + tc.mins * 60 + tc.secs + offset) * fps + tc.frame * 100,
   den |-> fps]

\* convert_output's table with nanoseconds scaled as microseconds.
FormatMultiplier_nanos_as_micros(format) ==
  CASE format = "Seconds" -> 1
    [] format = "Milliseconds" -> 1000
    [] format = "Microseconds" -> 1000000
    [] format = "Nanoseconds" -> 1000000
    [] format = "Flicks" -> 705600000
    [] OTHER -> 1

FormatMultiplier(format) ==
  CASE format = "Seconds" -> 1
    [] format = "Milliseconds" -> 1000
    [] format = "Microseconds" -> 1000000
    [] format = "Nanoseconds" -> 1000000000
    [] format = "Flicks" -> 705600000
    [] OTHER -> 1

\* convert_output(seconds)
convert_output(format, seconds) ==
  [num |-> seconds.num, den |-> seconds.den, mul |-> FormatMultiplier(format)]

TimeoutMs == 500

\* Mutant of check_timeout: the elapsed time is cast to seconds.
check_timeout_in_seconds(self, now) ==
  LET elapsed == (now - self.m_last_valid_time) \div 1000
  IN IF elapsed > TimeoutMs THEN [self EXCEPT !.outputs.valid = FALSE] ELSE self

\* check_timeout with the time since the clock's epoch as the elapsed time.
check_timeout_since_epoch(self, now) ==
  LET elapsed == now
  IN IF elapsed > TimeoutMs THEN [self EXCEPT !.outputs.valid = FALSE] ELSE self

\* check_timeout()
check_timeout(self, now) ==
  LET elapsed == now - self.m_last_valid_time
  IN IF elapsed > TimeoutMs THEN [self EXCEPT !.outputs.valid = FALSE] ELSE self

\* Mutant of read_frames: an if in place of the while, one frame read per tick.
read_frames_once(queue, got_frame, last_frame) ==
  IF Len(queue) > 0
    THEN [queue |-> Tail(queue), got_frame |-> TRUE, m_last_frame |-> Head(queue)]
    ELSE [queue |-> queue, got_frame |-> got_frame, m_last_frame |-> last_frame]

\* while(ltc_decoder_read(m_decoder, &ltc_frame) > 0) { got_frame = true; m_last_frame = ltc_frame; }
RECURSIVE read_frames(_, _, _)
read_frames(queue, got_frame, last_frame) ==
  IF Len(queue) > 0
    THEN read_frames(Tail(queue), TRUE, Head(queue))
    ELSE [queue |-> queue, got_frame |-> got_frame, m_last_frame |-> last_frame]

\* Mutant of publish_frame: m_last_valid_time is not refreshed.
publish_frame_stale_time(self, now, in) ==
  LET tc == ltc_frame_to_time(self.m_last_frame)
      standard == detect_standard(in.framerate, self.m_last_frame)
      is_drop_frame == self.m_last_frame.dfbit # 0
      detected == get_frame_rate_from_standard(standard, is_drop_frame)
      fps == IF in.framerate # "Auto" THEN get_configured_fps(in.framerate) ELSE detected
  IN [self EXCEPT !.outputs = [timecode |-> convert_output(in.format, to_seconds(tc, fps, in.offset)),
                               valid |-> TRUE,
                               frame_rate |-> fps,
                               drop_frame |-> is_drop_frame,
                               reverse |-> self.m_last_frame.reverse # 0,
                               volume |-> self.m_last_frame.volume]]

\* the body of if(got_frame) { ... }
publish_frame(self, now, in) ==
  LET tc == ltc_frame_to_time(self.m_last_frame)
      standard == detect_standard(in.framerate, self.m_last_frame)
      is_drop_frame == self.m_last_frame.dfbit # 0
      detected == get_frame_rate_from_standard(standard, is_drop_frame)
      fps == IF in.framerate # "Auto" THEN get_configured_fps(in.framerate) ELSE detected
  IN [self EXCEPT !.m_last_valid_time = now,
                  !.outputs = [timecode |-> convert_output(in.format, to_seconds(tc, fps, in.offset)),
                               valid |-> TRUE,
                               frame_rate |-> fps,
                               drop_frame |-> is_drop_frame,
                               reverse |-> self.m_last_frame.reverse # 0,
                               volume |-> self.m_last_frame.volume]]

\* operator()(tick)
LTCInput_tick(self, cdc, now, frames, decoded, in) ==
  IF self.m_decoder = Null THEN [self |-> self, codec |-> cdc]
  ELSE IF frames <= 0 THEN [self |-> self, codec |-> cdc]
  ELSE LET written == ltc_decoder_write_double(cdc, decoded, frames, self.m_sample_position)
           s1 == [self EXCEPT !.m_sample_position = @ + frames]
           rd == read_frames(written.queue, FALSE, s1.m_last_frame)
           s2 == [s1 EXCEPT !.m_last_frame = rd.m_last_frame]
           s3 == IF rd.got_frame THEN publish_frame(s2, now, in) ELSE s2
       IN [self |-> check_timeout(s3, now), codec |-> [written EXCEPT !.queue = rd.queue]]

(***************************************************************************)
(* LTCGenerator: the values the environment supplies.                      *)
(***************************************************************************)
LTC_TV_STANDARD == {"LTC_TV_525_60", "LTC_TV_625_50", "LTC_TV_1125_60", "LTC_TV_FILM_24"}

\* Sample rates handed to LTCGenerator::prepare; small, so that one LTC byte is
\* a few samples long.
GenRates == {2400}

\* inputs.offset, range -128000..128000, default 0.
GenOffsets == {0, 3661}

\* tk.frames, tk.tempo and tk.start_in_flicks of a generator tick.
GenFrameCounts == {0, 5}

Tempos == {120, 240}

FlicksPerSecond == 705600000

TickStarts == {0, FlicksPerSecond + FlicksPerSecond \div 2}

\* ltcsnd_sample_t levels of the waveform libltc writes.
SampleLo == 38

SampleHi == 218

(***************************************************************************)
(* libltc's encoder, as far as LTCGenerator can observe it.                *)
(***************************************************************************)
NoEncoder ==
  [sample_rate |-> 0, fps |-> 0, standard |-> "LTC_TV_525_60", bufsize |-> 0,
   tc |-> [hours |-> 0, mins |-> 0, secs |-> 0, frame |-> 0], advanced |-> 0,
   pending |-> <<>>, high |-> FALSE, last_byte |-> -1]

\* ltc_encoder_create / ltc_encoder_reinit(sample_rate, fps, standard, 0):
\* bufsize is 1 + ceil(sample_rate / fps) and the frame is reset.
ltc_encoder_reinit(e, sample_rate, fps, standard) ==
  [sample_rate |-> sample_rate, fps |-> fps, standard |-> standard,
   bufsize |-> 1 + (sample_rate + fps - 1) \div fps,
   tc |-> [hours |-> 0, mins |-> 0, secs |-> 0, frame |-> 0], advanced |-> 0,
   pending |-> <<>>, high |-> FALSE, last_byte |-> e.last_byte]

\* ltc_encoder_set_timecode(e, &st)
ltc_encoder_set_timecode(e, st) == [e EXCEPT !.tc = st, !.advanced = 0]

\* ltc_encoder_inc_timecode(e): one video frame later.
ltc_encoder_inc_timecode(e) == [e EXCEPT !.advanced = @ + 1]

\* Samples of one encoded byte: 8 bits of sample_rate / (fps * 80) samples each,
\* stretched by speed = 120 / tempo.
SamplesPerByte(e, tempo) == (12 * e.sample_rate) \div (e.fps * tempo)

\* The waveform of n samples, alternating between the two levels.
Waveform(n, high) ==
  [i \in 1..n |-> IF (i % 2 = 1) = high THEN SampleLo ELSE SampleHi]

\* ltc_encoder_encode_byte(e, byte, speed): appends the byte's samples to the
\* encoder's own buffer, which holds fewer than bufsize samples.
ltc_encoder_encode_byte(e, byte, tempo) ==
  LET n == SamplesPerByte(e, tempo)
  IN IF byte < 0 \/ byte > 9 \/ Len(e.pending) + n >= e.bufsize
       THEN [e EXCEPT !.last_byte = byte]
       ELSE [e EXCEPT !.pending = @ \o Waveform(n, e.high),
                      !.high = IF n % 2 = 1 THEN ~e.high ELSE e.high,
                      !.last_byte = byte]

\* ltc_encoder_get_bufferptr(e, &buf, true): hands out the pending samples and
\* flushes them.
ltc_encoder_get_bufferptr(e) == [e EXCEPT !.pending = <<>>]

(***************************************************************************)
(* LTCGenerator                                                            *)
(***************************************************************************)
LTCGenerator_init ==
  [setup_rate |-> 0, offset |-> 0, rate |-> "LTC_TV_525_60", m_encoder |-> Null,
   m_current_byte |-> 0, m_buffer |-> [capacity |-> 0, data |-> <<>>],
   m_current_flicks |-> 0]

\* static_cast / std::div: quotient truncated toward zero.
TruncDiv(a, b) == IF a >= 0 THEN a \div b ELSE -((-a) \div b)

\* (uint8_t)x
ToUint8(x) == x % 256

\* int64_t(m_current_flicks / 705'600'000. + offset): truncated toward zero.
OffsetSeconds(flicks, smpte_offset) ==
  LET whole == flicks \div FlicksPerSecond + smpte_offset
      part == flicks % FlicksPerSecond
  IN IF whole < 0 /\ part > 0 THEN whole + 1 ELSE whole

\* the SMPTETimecode st of update()
InitialTimecode(flicks, smpte_offset) ==
  LET offset0 == OffsetSeconds(flicks, smpte_offset)
      days == TruncDiv(offset0, 86400)
      offset1 == offset0 - days * 86400
      hours == TruncDiv(offset1, 3600)
      offset2 == offset1 - hours * 3600
      minutes == TruncDiv(offset2, 60)
      seconds == offset2 - minutes * 60
  IN [hours |-> ToUint8(hours), mins |-> ToUint8(minutes), secs |-> ToUint8(seconds),
      frame |-> 0]

StandardFps(standard) ==
  CASE standard \in {"LTC_TV_525_60", "LTC_TV_1125_60"} -> 30
    [] standard = "LTC_TV_625_50" -> 25
    [] standard = "LTC_TV_FILM_24" -> 24
    [] OTHER -> 30

\* boost::circular_buffer<uint8_t>::push_back: a full buffer drops its front.
push_back(buf, x) ==
  IF buf.capacity = 0 THEN buf
  ELSE IF Len(buf.data) = buf.capacity
    THEN [buf EXCEPT !.data = Append(Tail(@), x)]
    ELSE [buf EXCEPT !.data = Append(@, x)]

RECURSIVE push_all(_, _)
push_all(buf, samples) ==
  IF samples = <<>> THEN buf ELSE push_all(push_back(buf, Head(samples)), Tail(samples))

\* update() with the buffer sized to a sixteenth of the encoder's buffer.
LTCGenerator_update_small_buffer(self, e, h) ==
  LET fps == StandardFps(self.rate)
      fresh == self.m_encoder = Null
      id == IF fresh THEN Alloc(h) ELSE self.m_encoder
      e1 == ltc_encoder_reinit(e, self.setup_rate, fps, self.rate)
      e2 == ltc_encoder_set_timecode(e1, InitialTimecode(self.m_current_flicks, self.offset))
  IN [self |-> [self EXCEPT !.m_encoder = id,
                            !.m_buffer = [capacity |-> e2.bufsize \div 16, data |-> <<>>]],
      enc |-> e2,
      heap |-> IF fresh THEN Acquire(h) ELSE h,
      ev |-> IF fresh THEN << <<"create", id>> >> ELSE << <<"reinit", id>> >>]

\* update(): the result is the object, the encoder, the heap and the resource
\* calls made.
LTCGenerator_update(self, e, h) ==
  LET fps == StandardFps(self.rate)
      fresh == self.m_encoder = Null
      id == IF fresh THEN Alloc(h) ELSE self.m_encoder
      e1 == ltc_encoder_reinit(e, self.setup_rate, fps, self.rate)
      e2 == ltc_encoder_set_timecode(e1, InitialTimecode(self.m_current_flicks, self.offset))
  IN [self |-> [self EXCEPT !.m_encoder = id,
                            !.m_buffer = [capacity |-> e2.bufsize * 16, data |-> <<>>]],
      enc |-> e2,
      heap |-> IF fresh THEN Acquire(h) ELSE h,
      ev |-> IF fresh THEN << <<"create", id>> >> ELSE << <<"reinit", id>> >>]

\* prepare(setup)
LTCGenerator_prepare(self, e, h, rate) ==
  LTCGenerator_update([self EXCEPT !.setup_rate = rate], e, h)

\* ~LTCGenerator(): ltc_encoder_free(m_encoder); freeing a null encoder does nothing.
LTCGenerator_dtor(self, e, h) ==
  IF self.m_encoder # Null
    THEN [self |-> self, enc |-> NoEncoder, heap |-> Release(h, self.m_encoder),
          ev |-> << <<"free", self.m_encoder>> >>]
    ELSE [self |-> self, enc |-> e, heap |-> h, ev |-> <<>>]

\* encode_next_byte with the test of the byte index before its increment.
encode_next_byte_late_wrap(self, e, tempo) ==
  LET e1 == ltc_encoder_encode_byte(e, self.m_current_byte, tempo)
      wrapped == self.m_current_byte = 10
      e2 == IF wrapped THEN ltc_encoder_inc_timecode(e1) ELSE e1
  IN [self |-> [self EXCEPT !.m_current_byte = IF wrapped THEN 0 ELSE @ + 1,
                            !.m_buffer = push_all(@, e2.pending)],
      enc |-> ltc_encoder_get_bufferptr(e2),
      wrapped |-> wrapped]

\* One pass of the body of while(m_buffer.empty()) { ... }
encode_next_byte(self, e, tempo) ==
  LET e1 == ltc_encoder_encode_byte(e, self.m_current_byte, tempo)
      next == self.m_current_byte + 1
      wrapped == next = 10
      e2 == IF wrapped THEN ltc_encoder_inc_timecode(e1) ELSE e1
  IN [self |-> [self EXCEPT !.m_current_byte = IF wrapped THEN 0 ELSE next,
                            !.m_buffer = push_all(@, e2.pending)],
      enc |-> ltc_encoder_get_bufferptr(e2),
      wrapped |-> wrapped]

\* data = m_buffer.front(); m_buffer.pop_front();
pop_front(self) == [self EXCEPT !.m_buffer.data = Tail(@)]

\* (data / 127.f) - 1.f, as the fraction num / 127
to_audio(data) == [num |-> data - 127, den |-> 127]

(***************************************************************************)
(* XWaxDVS: the values the environment supplies.                           *)
(***************************************************************************)
\* inputs.vinyl_type (Serato_2a, Traktor_A), inputs.speed, inputs.pitch_filter
VinylTypes == {0, 3}

Speeds == {0, 1}

PitchFilters == {0, 1}

\* inputs.leadin in seconds and inputs.tempo
LeadIns == {0, 2}

DvsTempos == {120, 90}

\* Sample rates handed to XWaxDVS::prepare.
DvsRates == {0, 44100}

\* What timecoder_find_definition finds: the requested definition, only the
\* default one, or none.
Lookups == {"found", "default_only", "none"}

\* timecoder_get_pitch, in thousandths: 0.6, 1.0, 1.15, 1.5.
Pitches == {600, 1000, 1150, 1500}

\* The record advances by this many ms between two ticks that hear it.
PositionSteps == {10, 4}

NominalStep == 10

\* timecoder_get_position: no lock.
NoLock == -1

\* tk.frames of a tick that carries audio.
BlockFrames == 64

(***************************************************************************)
(* XWaxDVS                                                                 *)
(***************************************************************************)
QUALITY_RING_SIZE == 32

XWaxDVS_outputs_zero ==
  [speed |-> 0, tempo |-> 0, position |-> [num |-> 0, den |-> 1], timecode |-> -1,
   quality |-> [num |-> 0, den |-> 1], valid |-> FALSE]

\* The object after XWaxDVS(): m_timecoder = new timecoder{} is handle 1.
XWaxDVS_init ==
  [m_setup_rate |-> 0, m_timecoder |-> Alloc([live |-> {}, bad |-> FALSE]), m_timecode_def |-> "nullptr",
   m_work_buffer |-> [size |-> 0, capacity |-> 0],
   m_last_vinyl_type |-> -1, m_last_speed |-> -1, m_last_pitch_filter |-> -1,
   m_quality_ring |-> [i \in 0..(QUALITY_RING_SIZE - 1) |-> 0],
   m_quality_ring_index |-> 0, m_quality_ring_filled |-> 0,
   m_quality_last_position |-> -1, m_quality_last_pitch |-> 0,
   m_initialized |-> FALSE,
   inputs |-> [vinyl_type |-> 0, speed |-> 0, pitch_filter |-> 0, leadin |-> 0, tempo |-> 120],
   outputs |-> [speed |-> 0, tempo |-> 0, position |-> [num |-> 0, den |-> 1], timecode |-> 0,
                quality |-> [num |-> 0, den |-> 1], valid |-> FALSE]]

\* The timecoder struct: tables is the handle of what timecoder_init set up,
\* position the place of the record, heard the last reading since timecoder_init.
DeckInit ==
  [tables |-> Null, def |-> "nullptr", speed |-> 0, sample_rate |-> 0, legacy |-> FALSE,
   position |-> 0, heard |-> [position |-> NoLock, pitch |-> 0, any |-> FALSE]]

timecode_names ==
  [i \in 0..11 |->
     CASE i = 0 -> "serato_2a" [] i = 1 -> "serato_2b" [] i = 2 -> "serato_cd"
       [] i = 3 -> "traktor_a" [] i = 4 -> "traktor_b" [] i = 5 -> "traktor_mk2_a"
       [] i = 6 -> "traktor_mk2_b" [] i = 7 -> "traktor_mk2_cd" [] i = 8 -> "mixvibes_v2"
       [] i = 9 -> "mixvibes_7inch" [] i = 10 -> "pioneer_a" [] OTHER -> "pioneer_b"]

get_timecode_name(self) ==
  LET idx == self.inputs.vinyl_type
  IN IF idx >= 0 /\ idx < 12 THEN timecode_names[idx] ELSE timecode_names[0]

\* get_speed_multiplier(), in hundredths
get_speed_multiplier(self) == IF self.inputs.speed = 1 THEN 135 ELSE 100

\* timecoder_find_definition(name, nullptr)
timecoder_find_definition(name, lookup) ==
  CASE lookup = "found" -> name
    [] lookup = "default_only" /\ name = "serato_2a" -> name
    [] OTHER -> "nullptr"

\* clear_timecoder()
clear_timecoder(self, d, h) ==
  LET on == self.m_initialized /\ self.m_timecoder # Null
  IN [self |-> [self EXCEPT !.m_initialized = IF on THEN FALSE ELSE @,
                            !.m_timecode_def = "nullptr"],
      deck |-> IF on THEN [d EXCEPT !.tables = Null] ELSE d,
      heap |-> IF on THEN Release(h, d.tables) ELSE h,
      ev |-> IF on THEN << <<"free", d.tables>> >> ELSE <<>>]

\* init_timecoder()
init_timecoder(self, d, h, lookup) ==
  LET c == clear_timecoder(self, d, h)
      first == timecoder_find_definition(get_timecode_name(c.self), lookup)
      def == IF first # "nullptr" THEN first
             ELSE timecoder_find_definition("serato_2a", lookup)
  IN IF c.self.m_setup_rate <= 0 THEN c
     ELSE IF def = "nullptr" THEN c
     ELSE [self |-> [c.self EXCEPT !.m_timecode_def = def,
                                   !.m_initialized = TRUE,
                                   !.m_quality_ring = [i \in 0..(QUALITY_RING_SIZE - 1) |-> 0],
                                   !.m_quality_ring_index = 0,
                                   !.m_quality_ring_filled = 0,
                                   !.m_quality_last_position = -1,
                                   !.m_quality_last_pitch = 0],
           deck |-> [c.deck EXCEPT !.tables = Alloc(c.heap),
                                   !.def = def,
                                   !.speed = get_speed_multiplier(c.self),
                                   !.sample_rate = c.self.m_setup_rate,
                                   !.legacy = (c.self.inputs.pitch_filter = 1),
                                   !.heard = [position |-> NoLock, pitch |-> 0, any |-> FALSE]],
           heap |-> Acquire(c.heap),
           ev |-> Append(c.ev, <<"create", Alloc(c.heap)>>)]

\* prepare(setup) without "Force reinitialization on next process call".
XWaxDVS_prepare_keeps_last(self, rate) ==
  [self EXCEPT !.m_setup_rate = rate,
               !.m_work_buffer.capacity = IF @ < 4096 THEN 4096 ELSE @]

\* prepare(setup)
XWaxDVS_prepare(self, rate) ==
  [self EXCEPT !.m_setup_rate = rate,
               !.m_work_buffer.capacity = IF @ < 4096 THEN 4096 ELSE @,
               !.m_last_vinyl_type = -1,
               !.m_last_speed = -1,
               !.m_last_pitch_filter = -1]

\* ~XWaxDVS() without its call of clear_timecoder().
XWaxDVS_dtor_without_clear(self, d, h) ==
  [self |-> self, deck |-> d, heap |-> Release(h, self.m_timecoder),
   ev |-> << <<"free", self.m_timecoder>> >>]

\* ~XWaxDVS(): clear_timecoder(); delete m_timecoder;
XWaxDVS_dtor(self, d, h) ==
  LET c == clear_timecoder(self, d, h)
  IN [self |-> c.self, deck |-> c.deck, heap |-> Release(c.heap, self.m_timecoder),
      ev |-> Append(c.ev, <<"free", self.m_timecoder>>)]

\* std::clamp(quality, 0.0, 1.0) of the fraction num / den
clamp01(q) ==
  IF q.num < 0 THEN [num |-> 0, den |-> 1]
  ELSE IF q.num > q.den THEN [num |-> 1, den |-> 1]
  ELSE q

Abs(x) == IF x < 0 THEN -x ELSE x

\* position_quality without the case of no position before.
position_quality_needs_prior(self, position_ms) ==
  IF position_ms = -1 \/ self.m_quality_last_position = -1 THEN 0
  ELSE IF Abs(position_ms - self.m_quality_last_position) >= 5 THEN 100
  ELSE 50

\* position_quality with the first position after none scored as a small step.
position_quality_relock_half(self, position_ms) ==
  IF position_ms = -1 THEN 0
  ELSE IF self.m_quality_last_position # -1
          /\ Abs(position_ms - self.m_quality_last_position) >= 5 THEN 100
  ELSE 50

\* the position heuristic of operator()
position_quality(self, position_ms) ==
  IF position_ms = -1 THEN 0
  ELSE IF self.m_quality_last_position = -1
          \/ Abs(position_ms - self.m_quality_last_position) >= 5 THEN 100
  ELSE 50

\* pitch_quality with an unchanged pitch scored as the most stable one.
pitch_quality_rewards_constant(self, pitch) ==
  IF self.m_quality_ring_filled > 0
    THEN LET pitch_diff == pitch - self.m_quality_last_pitch
         IN IF pitch_diff # 0
              THEN IF Abs(pitch) < 3 * Abs(pitch_diff) THEN 0
                   ELSE IF Abs(pitch) > 6 * Abs(pitch_diff) THEN 100
                   ELSE 75
              ELSE 100
    ELSE 0

\* pitch_quality with pitch_stability = |m_quality_last_pitch / pitch_diff|.
pitch_quality_of_previous(self, pitch) ==
  IF self.m_quality_ring_filled > 0
    THEN LET pitch_diff == pitch - self.m_quality_last_pitch
         IN IF pitch_diff # 0
              THEN IF Abs(self.m_quality_last_pitch) < 3 * Abs(pitch_diff) THEN 0
                   ELSE IF Abs(self.m_quality_last_pitch) > 6 * Abs(pitch_diff) THEN 100
                   ELSE 75
              ELSE 0
    ELSE 0

\* the pitch heuristic of operator(): pitch_stability = |pitch / pitch_diff|
\* against 3.0 and 6.0
pitch_quality(self, pitch) ==
  IF self.m_quality_ring_filled > 0
    THEN LET pitch_diff == pitch - self.m_quality_last_pitch
         IN IF pitch_diff # 0
              THEN IF Abs(pitch) < 3 * Abs(pitch_diff) THEN 0
                   ELSE IF Abs(pitch) > 6 * Abs(pitch_diff) THEN 100
                   ELSE 75
              ELSE 0
    ELSE 0

\* std::accumulate(m_quality_ring, m_quality_ring + m_quality_ring_filled, 0)
RECURSIVE accumulate(_, _)
accumulate(ring, n) == IF n = 0 THEN 0 ELSE ring[n - 1] + accumulate(ring, n - 1)

\* push_quality with an index that is never wrapped.
push_quality_unwrapped(self, score) ==
  LET ring == [i \in DOMAIN self.m_quality_ring \cup {self.m_quality_ring_index} |->
                 IF i = self.m_quality_ring_index THEN score ELSE self.m_quality_ring[i]]
      index == self.m_quality_ring_index + 1
      filled == self.m_quality_ring_filled + 1
      quality == [num |-> accumulate(ring, filled), den |-> 2 * 100 * filled]
  IN [self EXCEPT !.m_quality_ring = ring,
                  !.m_quality_ring_index = index,
                  !.m_quality_ring_filled = filled,
                  !.outputs.quality = clamp01(quality)]

\* push_quality with the average taken over the whole ring.
push_quality_fixed_divisor(self, score) ==
  LET ring == [self.m_quality_ring EXCEPT ![self.m_quality_ring_index] = score]
      index == (self.m_quality_ring_index + 1) % QUALITY_RING_SIZE
      filled == IF self.m_quality_ring_filled < QUALITY_RING_SIZE
                  THEN self.m_quality_ring_filled + 1
                  ELSE self.m_quality_ring_filled
      quality == [num |-> accumulate(ring, filled), den |-> 2 * 100 * QUALITY_RING_SIZE]
  IN [self EXCEPT !.m_quality_ring = ring,
                  !.m_quality_ring_index = index,
                  !.m_quality_ring_filled = filled,
                  !.outputs.quality = clamp01(quality)]

\* "Update quality ring buffer" and "Calculate average quality"
push_quality(self, score) ==
  LET ring == [self.m_quality_ring EXCEPT ![self.m_quality_ring_index] = score]
      index == (self.m_quality_ring_index + 1) % QUALITY_RING_SIZE
      filled == IF self.m_quality_ring_filled < QUALITY_RING_SIZE
                  THEN self.m_quality_ring_filled + 1
                  ELSE self.m_quality_ring_filled
      quality == [num |-> accumulate(ring, filled), den |-> 2 * 100 * filled]
  IN [self EXCEPT !.m_quality_ring = ring,
                  !.m_quality_ring_index = index,
                  !.m_quality_ring_filled = filled,
                  !.outputs.quality = clamp01(quality)]

\* XWaxDVS::convert_output is called by operator() and declared nowhere in the
\* sources: seconds are passed through, and the int port Timecode truncates them.
XWaxDVS_convert_output(seconds) == seconds

\* the lock report with the lead-in added to the position.
report_position_adds_leadin(self, position_ms) ==
  IF position_ms >= 0
    THEN LET position_sec == [num |-> position_ms, den |-> 1000]
             leadin_sec == self.inputs.leadin
             shifted == [num |-> position_ms + leadin_sec * 1000, den |-> 1000]
             whole == XWaxDVS_convert_output(position_sec)
         IN [self EXCEPT !.outputs.position = XWaxDVS_convert_output(shifted),
                         !.outputs.timecode = whole.num \div whole.den,
                         !.outputs.valid = TRUE]
    ELSE [self EXCEPT !.outputs.position = [num |-> 0, den |-> 1],
                      !.outputs.timecode = -1,
                      !.outputs.valid = FALSE]

\* the lock report of operator(): position, timecode, valid
report_position(self, position_ms) ==
  IF position_ms >= 0
    THEN LET position_sec == [num |-> position_ms, den |-> 1000]
             leadin_sec == self.inputs.leadin
             shifted == [num |-> position_ms - leadin_sec * 1000, den |-> 1000]
             whole == XWaxDVS_convert_output(position_sec)
         IN [self EXCEPT !.outputs.position = XWaxDVS_convert_output(shifted),
                         !.outputs.timecode = whole.num \div whole.den,
                         !.outputs.valid = TRUE]
    ELSE [self EXCEPT !.outputs.position = [num |-> 0, den |-> 1],
                      !.outputs.timecode = -1,
                      !.outputs.valid = FALSE]

\* timecoder_submit, timecoder_get_pitch, timecoder_get_position: the deck
\* hears the block and answers with the reading.
timecoder_submit(d, reading) ==
  [d EXCEPT !.heard = [position |-> reading.position, pitch |-> reading.pitch, any |-> TRUE]]

\* operator()(tick): the result is the object, the deck, the heap, the resource
\* calls made, whether the parameters had changed, whether the correlator was
\* rebuilt and whether the block was submitted.
XWaxDVS_tick(self, d, h, frames, channels, lookup, reading) ==
  LET changed == \/ self.inputs.vinyl_type # self.m_last_vinyl_type
                 \/ self.inputs.speed # self.m_last_speed
                 \/ self.inputs.pitch_filter # self.m_last_pitch_filter
      i == IF changed THEN init_timecoder(self, d, h, lookup)
           ELSE [self |-> self, deck |-> d, heap |-> h, ev |-> <<>>]
      s1 == [i.self EXCEPT !.m_last_vinyl_type = self.inputs.vinyl_type,
                           !.m_last_speed = self.inputs.speed,
                           !.m_last_pitch_filter = self.inputs.pitch_filter]
      rebuilt == changed /\ s1.m_initialized
  IN IF ~s1.m_initialized \/ s1.m_timecoder = Null
       THEN [self |-> [s1 EXCEPT !.outputs = XWaxDVS_outputs_zero], deck |-> i.deck,
             heap |-> i.heap, ev |-> i.ev, changed |-> changed, rebuilt |-> rebuilt,
             submitted |-> FALSE, position_quality |-> 0, pitch_quality |-> 0]
     ELSE IF channels < 2 \/ frames <= 0
       THEN [self |-> [s1 EXCEPT !.outputs = XWaxDVS_outputs_zero], deck |-> i.deck,
             heap |-> i.heap, ev |-> i.ev, changed |-> changed, rebuilt |-> rebuilt,
             submitted |-> FALSE, position_quality |-> 0, pitch_quality |-> 0]
     ELSE LET required_size == frames * 2
              s2 == [s1 EXCEPT !.m_work_buffer.size = IF @ < required_size THEN required_size ELSE @,
                               !.m_work_buffer.capacity = IF @ < required_size THEN required_size ELSE @]
              pitch == reading.pitch
              position_ms == reading.position
              s3 == [s2 EXCEPT !.outputs.speed = pitch,
                               !.outputs.tempo = pitch * self.inputs.tempo]
              s4 == report_position(s3, position_ms)
              score == position_quality(s4, position_ms) + pitch_quality(s4, pitch)
              s5 == [s4 EXCEPT !.m_quality_last_position = position_ms,
                               !.m_quality_last_pitch = pitch]
          IN [self |-> push_quality(s5, score), deck |-> timecoder_submit(i.deck, reading),
              heap |-> i.heap, ev |-> i.ev, changed |-> changed, rebuilt |-> rebuilt,
              submitted |-> TRUE,
              position_quality |-> position_quality(s4, position_ms),
              pitch_quality |-> pitch_quality(s4, pitch)]

(***************************************************************************)
(* Actions of an LTCInput instance.                                        *)
(***************************************************************************)
HeapInit == [live |-> {}, bad |-> FALSE]

Idle == [pc |-> "idle", frames |-> 0, tempo |-> 120, frame |-> 0]

GenStart ==
  /\ gen = LTCGenerator_init
  /\ enc = NoEncoder
  /\ run = Idle
  /\ tally = [bytes |-> 0, incs |-> 0, tempos |-> {}]
  /\ audio = <<>>

\* No XWaxDVS instance exists next to an LTC engine.
DvsStart ==
  /\ dvs = [XWaxDVS_init EXCEPT !.m_timecoder = Null]
  /\ deck = DeckInit
  /\ events = 0
  /\ since = 0
  /\ steady = 0
  /\ window = <<>>

NoOp == [kind |-> "construct", ev |-> <<>>]

\* steady_clock::now() at the construction of the second LTCInput, the first
\* being constructed at 0.
ClockShift == 7

\* The second LTCInput after construction.
TwinStart ==
  [inp |-> LTCInput_init, codec |-> NoCodec, heap |-> HeapInit, clock |-> ClockShift,
   skewed |-> FALSE]

InputPrepare(rate) ==
  /\ alive
  /\ CanAlloc(heap) \/ inp.m_decoder # Null
  /\ LET r == LTCInput_prepare(inp, codec, heap, clock, rate)
     IN /\ inp' = r.self
        /\ codec' = r.codec
        /\ heap' = r.heap
        /\ op' = [kind |-> "prepare", ev |-> r.ev, rate |-> rate,
                  again |-> op.kind = "prepare" /\ op.rate = rate]
  /\ fed' = 0
  /\ UNCHANGED <<engine, alive, clock, genvars, dvsvars>>

InputSetQueueSize(q) ==
  /\ alive
  /\ CanAlloc(heap) \/ inp.m_decoder # Null
  /\ LET r == queue_size_update(inp, codec, heap, clock, q)
     IN /\ inp' = r.self
        /\ codec' = r.codec
        /\ heap' = r.heap
        /\ op' = [kind |-> "reconfigure", ev |-> r.ev, queue_size |-> q]
  /\ fed' = 0
  /\ UNCHANGED <<engine, alive, clock, genvars, dvsvars>>

InputTick(frames, decoded, in) ==
  /\ alive
  /\ inp.m_sample_position + frames <= MaxPosition
  /\ LET r == LTCInput_tick(inp, codec, clock, frames, decoded, in)
     IN /\ inp' = r.self
        /\ codec' = r.codec
  /\ op' = [kind |-> "tick", ev |-> <<>>, frames |-> frames, decoded |-> decoded, in |-> in,
            was_valid |-> inp.outputs.valid,
            was_silent |-> clock - inp.m_last_valid_time > TimeoutMs]
  /\ fed' = IF inp.m_setup_rate > 1 THEN fed + frames ELSE fed
  /\ UNCHANGED <<engine, alive, clock, heap, genvars, dvsvars>>

InputDestroy ==
  /\ alive
  /\ LET r == LTCInput_dtor(inp, codec, heap)
     IN /\ inp' = r.self
        /\ codec' = r.codec
        /\ heap' = r.heap
        /\ op' = [kind |-> "teardown", ev |-> r.ev]
  /\ alive' = FALSE
  /\ UNCHANGED <<engine, clock, fed, genvars, dvsvars>>

Advance(dt) ==
  /\ alive
  /\ clock + dt <= MaxClock
  /\ clock' = clock + dt
  /\ op' = [kind |-> "elapse", ev |-> <<>>]
  /\ UNCHANGED <<engine, alive, heap, inputvars, genvars, dvsvars>>

InputInit ==
  /\ engine = "LTCInput"
  /\ alive = TRUE
  /\ clock = 0
  /\ heap = HeapInit
  /\ op = NoOp
  /\ fed = 0
  /\ inp = LTCInput_init
  /\ codec = NoCodec
  /\ GenStart
  /\ DvsStart
  /\ twin = TwinStart

InputNext ==
  \/ \E rate \in Rates : InputPrepare(rate) /\ UNCHANGED twin
  \/ \E q \in QueueSizes : InputSetQueueSize(q) /\ UNCHANGED twin
  \/ \E frames \in FrameCounts :
       \E decoded \in (IF inp.m_decoder = Null \/ frames <= 0 THEN {<<>>} ELSE DecodedSeqs) :
         \E in \in (IF decoded = <<>> THEN {DefaultInputs} ELSE TickInputs) :
           InputTick(frames, decoded, in) /\ UNCHANGED twin
  \/ \E dt \in TimeSteps : Advance(dt) /\ UNCHANGED twin
  \/ InputDestroy /\ UNCHANGED twin

SpecInput == InputInit /\ [][InputNext]_vars

(***************************************************************************)
(* Two LTCInput instances given the same calls with the same inputs, each  *)
(* at times of its own: the second is constructed ClockShift later, and    *)
(* between two calls it may wait for another time than the first; skewed   *)
(* records that it ever did.                                               *)
(***************************************************************************)
TwinPrepare(rate) ==
  /\ InputPrepare(rate)
  /\ LET r == LTCInput_prepare(twin.inp, twin.codec, twin.heap, twin.clock, rate)
     IN twin' = [twin EXCEPT !.inp = r.self, !.codec = r.codec, !.heap = r.heap]

TwinSetQueueSize(q) ==
  /\ InputSetQueueSize(q)
  /\ LET r == queue_size_update(twin.inp, twin.codec, twin.heap, twin.clock, q)
     IN twin' = [twin EXCEPT !.inp = r.self, !.codec = r.codec, !.heap = r.heap]

TwinTick(frames, decoded, in) ==
  /\ InputTick(frames, decoded, in)
  /\ LET r == LTCInput_tick(twin.inp, twin.codec, twin.clock, frames, decoded, in)
     IN twin' = [twin EXCEPT !.inp = r.self, !.codec = r.codec]

TwinAdvance(dt, dt2) ==
  /\ Advance(dt)
  /\ twin' = [twin EXCEPT !.clock = @ + dt2, !.skewed = @ \/ dt # dt2]

TwinDestroy ==
  /\ InputDestroy
  /\ LET r == LTCInput_dtor(twin.inp, twin.codec, twin.heap)
     IN twin' = [twin EXCEPT !.inp = r.self, !.codec = r.codec, !.heap = r.heap]

TwinNext ==
  \/ \E rate \in Rates : TwinPrepare(rate)
  \/ \E q \in QueueSizes : TwinSetQueueSize(q)
  \/ \E frames \in FrameCounts :
       \E decoded \in (IF inp.m_decoder = Null \/ frames <= 0 THEN {<<>>} ELSE DecodedSeqs) :
         \E in \in (IF decoded = <<>> THEN {DefaultInputs} ELSE TickInputs) :
           TwinTick(frames, decoded, in)
  \/ \E dt \in TimeSteps, dt2 \in TimeSteps : TwinAdvance(dt, dt2)
  \/ TwinDestroy

SpecTwin == InputInit /\ [][TwinNext]_vars

(***************************************************************************)
(* Actions of an LTCGenerator instance.  operator() runs as a sequence of   *)
(* steps (one per pass of its loops) that nothing else interleaves with.    *)
(***************************************************************************)
GenPrepare(rate) ==
  /\ alive /\ run.pc = "idle"
  /\ LET r == LTCGenerator_prepare(gen, enc, heap, rate)
     IN /\ gen' = r.self
        /\ enc' = r.enc
        /\ heap' = r.heap
        /\ op' = [kind |-> "prepare", ev |-> r.ev, rate |-> rate,
                  again |-> op.kind = "prepare" /\ op.rate = rate]
  /\ UNCHANGED <<engine, alive, clock, run, tally, audio, inputvars, twin, dvsvars>>

\* inputs.offset.update(self)
GenSetOffset(o) ==
  /\ alive /\ run.pc = "idle" /\ gen.m_encoder # Null
  /\ LET r == LTCGenerator_update([gen EXCEPT !.offset = o], enc, heap)
     IN /\ gen' = r.self
        /\ enc' = r.enc
        /\ heap' = r.heap
        /\ op' = [kind |-> "reconfigure", ev |-> r.ev]
  /\ UNCHANGED <<engine, alive, clock, run, tally, audio, inputvars, twin, dvsvars>>

\* inputs.rate.update(self)
GenSetRate(standard) ==
  /\ alive /\ run.pc = "idle" /\ gen.m_encoder # Null
  /\ LET r == LTCGenerator_update([gen EXCEPT !.rate = standard], enc, heap)
     IN /\ gen' = r.self
        /\ enc' = r.enc
        /\ heap' = r.heap
        /\ op' = [kind |-> "reconfigure", ev |-> r.ev]
  /\ UNCHANGED <<engine, alive, clock, run, tally, audio, inputvars, twin, dvsvars>>

\* operator()(tk), entry: m_current_flicks = tk.start_in_flicks; frame = 0
GenTickBegin(frames, tempo, start) ==
  /\ alive /\ run.pc = "idle" /\ gen.m_encoder # Null
  /\ tally.bytes + frames <= MaxBytes
  /\ gen' = [gen EXCEPT !.m_current_flicks = start]
  /\ run' = [pc |-> "loop", frames |-> frames, tempo |-> tempo, frame |-> 0]
  /\ audio' = <<>>
  /\ op' = [kind |-> "tick", ev |-> <<>>]
  /\ UNCHANGED <<engine, alive, clock, heap, enc, tally, inputvars, twin, dvsvars>>

\* one pass of while(m_buffer.empty())
GenEncodeByte ==
  /\ run.pc = "loop" /\ run.frame < run.frames
  /\ gen.m_buffer.data = <<>>
  /\ tally.bytes < MaxBytes
  /\ LET r == encode_next_byte(gen, enc, run.tempo)
     IN /\ gen' = r.self
        /\ enc' = r.enc
        /\ tally' = [bytes |-> tally.bytes + 1,
                     incs |-> tally.incs + (IF enc'.advanced # enc.advanced THEN 1 ELSE 0),
                     tempos |-> tally.tempos \cup {run.tempo}]
  /\ op' = [kind |-> "encode", ev |-> <<>>]
  /\ UNCHANGED <<engine, alive, clock, heap, run, audio, inputvars, twin, dvsvars>>

\* the rest of the for body: one sample popped and written to outputs.audio[frame]
GenEmit ==
  /\ run.pc = "loop" /\ run.frame < run.frames
  /\ gen.m_buffer.data # <<>>
  /\ audio' = Append(audio, to_audio(Head(gen.m_buffer.data)))
  /\ gen' = pop_front(gen)
  /\ run' = [run EXCEPT !.frame = @ + 1]
  /\ op' = [kind |-> "emit", ev |-> <<>>]
  /\ UNCHANGED <<engine, alive, clock, heap, enc, tally, inputvars, twin, dvsvars>>

\* frame == tk.frames: operator() returns
GenTickEnd ==
  /\ run.pc = "loop" /\ run.frame >= run.frames
  /\ run' = Idle
  /\ op' = [kind |-> "ticked", ev |-> <<>>, frames |-> run.frames]
  /\ UNCHANGED <<engine, alive, clock, heap, gen, enc, tally, audio, inputvars, twin, dvsvars>>

GenDestroy ==
  /\ alive /\ run.pc = "idle"
  /\ LET r == LTCGenerator_dtor(gen, enc, heap)
     IN /\ gen' = r.self
        /\ enc' = r.enc
        /\ heap' = r.heap
        /\ op' = [kind |-> "teardown", ev |-> r.ev]
  /\ alive' = FALSE
  /\ UNCHANGED <<engine, clock, run, tally, audio, inputvars, twin, dvsvars>>

GenInit ==
  /\ engine = "LTCGenerator"
  /\ alive = TRUE
  /\ clock = 0
  /\ heap = HeapInit
  /\ op = NoOp
  /\ fed = 0
  /\ inp = LTCInput_init
  /\ codec = NoCodec
  /\ GenStart
  /\ DvsStart
  /\ twin = TwinStart

GenNext ==
  \/ \E rate \in GenRates : GenPrepare(rate)
  \/ \E o \in GenOffsets : GenSetOffset(o)
  \/ \E standard \in LTC_TV_STANDARD : GenSetRate(standard)
  \/ \E frames \in GenFrameCounts, tempo \in Tempos, start \in TickStarts :
       GenTickBegin(frames, tempo, start)
  \/ GenEncodeByte
  \/ GenEmit
  \/ GenTickEnd
  \/ GenDestroy

SpecGenerator == GenInit /\ [][GenNext]_vars

(***************************************************************************)
(* Claims about LTCInput.                                                  *)
(***************************************************************************)
(* Actions of an XWaxDVS instance.  events bounds the calls and ticks that *)
(* are not a plain tick: each call, the destructor included, each tick     *)
(* that submits nothing, and each anomaly in what the correlator answers.  *)
(***************************************************************************)
InputValues ==
  [vinyl_type |-> VinylTypes, speed |-> Speeds, pitch_filter |-> PitchFilters,
   leadin |-> LeadIns, tempo |-> DvsTempos]

TickShapes ==
  {[frames |-> BlockFrames, channels |-> 2], [frames |-> 0, channels |-> 2],
   [frames |-> BlockFrames, channels |-> 1]}

\* What the correlator may answer to a block: the record moved by step, and
\* the correlator is locked on it or not.
Answers ==
  {[step |-> st, locked |-> TRUE, pitch |-> p] : st \in PositionSteps, p \in Pitches}
    \cup {[step |-> NominalStep, locked |-> FALSE, pitch |-> p] : p \in Pitches}

NoAnswer == [step |-> 0, locked |-> FALSE, pitch |-> 0]

Reading(d, a) ==
  [position |-> IF a.locked THEN d.position + a.step ELSE NoLock, pitch |-> a.pitch]

\* heard is the reading before this one, if the correlator gave one since it
\* was built.
Nominal(heard, a) ==
  /\ a.locked
  /\ \/ ~heard.any
     \/ /\ heard.position # NoLock
        /\ a.step = NominalStep
        /\ a.pitch = heard.pitch

\* The disturbances in one answer: the record not followed at NominalStep,
\* and a pitch other than the one heard before (1.0 for the first answer).
Anomalies(heard, a) ==
  (IF a.locked /\ a.step = NominalStep THEN 0 ELSE 1)
    + (IF a.pitch = (IF heard.any THEN heard.pitch ELSE 1000) THEN 0 ELSE 1)

NothingHeard == [position |-> NoLock, pitch |-> 0, any |-> FALSE]

\* The three inputs that select the correlator: vinyl format, RPM, pitch filter.
Selected(inputs) ==
  [vinyl_type |-> inputs.vinyl_type, speed |-> inputs.speed,
   pitch_filter |-> inputs.pitch_filter]

\* The tick asks timecoder_find_definition.
Consults(self) ==
  /\ \/ self.inputs.vinyl_type # self.m_last_vinyl_type
     \/ self.inputs.speed # self.m_last_speed
     \/ self.inputs.pitch_filter # self.m_last_pitch_filter
  /\ self.m_setup_rate > 0

\* The tick reaches timecoder_submit.
Submits(self, d, h, shape, lookup) ==
  XWaxDVS_tick(self, d, h, shape.frames, shape.channels, lookup,
               Reading(d, NoAnswer)).submitted

\* The scores of the latest QUALITY_RING_SIZE ticks, oldest first.
Latest(scores) ==
  IF Len(scores) > QUALITY_RING_SIZE
    THEN SubSeq(scores, Len(scores) - QUALITY_RING_SIZE + 1, Len(scores))
    ELSE scores

\* prepare(setup); the repeat of the prepare just made is not counted among
\* the disturbances.
DvsPrepare(rate) ==
  /\ alive
  /\ events < MaxEvents \/ (op.kind = "prepare" /\ op.rate = rate)
  /\ dvs' = XWaxDVS_prepare(dvs, rate)
  /\ events' = IF op.kind = "prepare" /\ op.rate = rate THEN events ELSE events + 1
  /\ op' = [kind |-> "prepare", ev |-> <<>>, rate |-> rate,
            again |-> op.kind = "prepare" /\ op.rate = rate,
            seen |-> op.seen, fresh |-> TRUE]
  /\ UNCHANGED <<engine, alive, clock, heap, deck, since, steady, window, inputvars, twin, genvars>>

\* The host writes one of inputs.vinyl_type, speed, pitch_filter, leadin, tempo.
DvsSetInput(name, v) ==
  /\ alive
  /\ events < MaxEvents
  /\ dvs.inputs[name] # v
  /\ dvs' = [dvs EXCEPT !.inputs[name] = v]
  /\ events' = events + 1
  /\ op' = [kind |-> "input", ev |-> <<>>, seen |-> op.seen, fresh |-> op.fresh]
  /\ UNCHANGED <<engine, alive, clock, heap, deck, since, steady, window, inputvars, twin, genvars>>

\* operator()(tick)
DvsTick(shape, lookup, a) ==
  /\ alive
  /\ deck.position + a.step <= MaxPositionMs
  /\ \E r \in {XWaxDVS_tick(dvs, deck, heap, shape.frames, shape.channels, lookup,
                             Reading(deck, a))} :
     LET built == r.rebuilt
         torn == r.ev # <<>>
         heard == IF torn THEN NothingHeard ELSE deck.heard
         cost == IF r.submitted
                   THEN Anomalies(heard, a) + (IF lookup = "found" THEN 0 ELSE 1)
                   ELSE 1
     IN /\ events + cost <= MaxEvents
        /\ events' = events + cost
        /\ dvs' = r.self
        /\ heap' = r.heap
        /\ deck' = IF r.submitted
                     THEN [timecoder_submit(r.deck, Reading(deck, a))
                             EXCEPT !.position = @ + a.step]
                     ELSE r.deck
        /\ since' = IF r.submitted THEN (IF torn THEN 1 ELSE since + 1)
                    ELSE IF torn THEN 0 ELSE since
        /\ steady' = IF r.submitted
                       THEN IF Nominal(heard, a)
                              THEN (IF torn THEN 1 ELSE steady + 1)
                              ELSE 0
                       ELSE IF torn THEN 0 ELSE steady
        /\ window' = IF r.submitted
                       THEN Latest(Append(IF torn THEN <<>> ELSE window,
                                          r.position_quality + r.pitch_quality))
                       ELSE IF torn THEN <<>> ELSE window
        /\ op' = [kind |-> "tick", ev |-> r.ev, changed |-> r.changed, rebuilt |-> built,
                  submitted |-> r.submitted, reading |-> Reading(deck, a),
                  prev |-> heard,
                  lookup |-> lookup,
                  seen |-> {Selected(dvs.inputs)},
                  fresh |-> FALSE,
                  trigger |-> op.fresh \/ op.seen # {Selected(dvs.inputs)},
                  was_filled |-> dvs.m_quality_ring_filled,
                  position_quality |-> r.position_quality,
                  pitch_quality |-> r.pitch_quality]
  /\ UNCHANGED <<engine, alive, clock, inputvars, twin, genvars>>

\* ~XWaxDVS()
DvsDestroy ==
  /\ alive
  /\ events < MaxEvents
  /\ LET r == XWaxDVS_dtor(dvs, deck, heap)
     IN /\ dvs' = r.self
        /\ deck' = r.deck
        /\ heap' = r.heap
        /\ op' = [kind |-> "teardown", ev |-> r.ev]
  /\ alive' = FALSE
  /\ UNCHANGED <<engine, clock, events, since, steady, window, inputvars, twin, genvars>>

DvsInit ==
  /\ engine = "XWaxDVS"
  /\ alive = TRUE
  /\ clock = 0
  /\ heap = Acquire(HeapInit)
  /\ op = [kind |-> "construct", ev |-> << <<"create", Alloc(HeapInit)>> >>,
           seen |-> {}, fresh |-> FALSE]
  /\ fed = 0
  /\ inp = LTCInput_init
  /\ codec = NoCodec
  /\ GenStart
  /\ twin = TwinStart
  /\ dvs = XWaxDVS_init
  /\ deck = DeckInit
  /\ events = 0
  /\ since = 0
  /\ steady = 0
  /\ window = <<>>

DvsNext ==
  \/ \E rate \in DvsRates : DvsPrepare(rate)
  \/ \E name \in DOMAIN InputValues : \E v \in InputValues[name] : DvsSetInput(name, v)
  \/ \E shape \in TickShapes :
       \E lookup \in (IF Consults(dvs) THEN Lookups ELSE {"found"}) :
         \E a \in (IF Submits(dvs, deck, heap, shape, lookup) THEN Answers ELSE {NoAnswer}) :
           DvsTick(shape, lookup, a)
  \/ DvsDestroy

SpecDvs == DvsInit /\ [][DvsNext]_vars

(***************************************************************************)
(* One instance of any of the three engines, from its construction on.     *)
(***************************************************************************)
AllInit == InputInit \/ GenInit \/ DvsInit

AllNext ==
  \/ engine = "LTCInput" /\ InputNext
  \/ engine = "LTCGenerator" /\ GenNext
  \/ engine = "XWaxDVS" /\ DvsNext

SpecAll == AllInit /\ [][AllNext]_vars

(***************************************************************************)
Elapsed == clock - inp.m_last_valid_time

Last(q) == q[Len(q)]

TenSeconds(tc) == tc.num = 10 * tc.den /\ tc.mul = 1

\* C1 as stated: after every tick, of any frame count, valid is false if more
\* than 500 ms have elapsed since last-valid-time.
C1_AnyTick ==
  op.kind = "tick" => (Elapsed > 500 => inp.outputs.valid = FALSE)

\* C1 amended: after every tick of at least one frame handled while the codec
\* exists, valid is false if more than 500 ms have elapsed since last-valid-time.
C1_Timeout ==
  (op.kind = "tick" /\ op.frames > 0 /\ inp.m_decoder # Null)
    => (Elapsed > 500 => inp.outputs.valid = FALSE)

C1_Witness ==
  /\ op.kind = "tick" /\ op.frames > 0 /\ inp.m_decoder # Null
  /\ op.was_valid /\ Elapsed > 500 /\ inp.outputs.valid = FALSE

\* C2 as stated: at every point the sample-position counter equals the sum of
\* the frame counts of the ticks processed since the last prepare or reconfigure.
C2_Always == inp.m_sample_position = fed

\* C2 amended: whenever the engine is initialised (sample rate above 1) the
\* sample-position counter equals the sum of the frame counts of the ticks since
\* the last prepare or reconfigure, and a tick of n > 0 frames has fed the codec n
\* samples starting at the counter's pre-tick value; a tick never decreases it.
C2_Initialised ==
  /\ inp.m_setup_rate > 1 => inp.m_sample_position = fed
  /\ (op.kind = "tick" /\ op.frames > 0 /\ inp.m_setup_rate > 1)
       => /\ codec.write_off = fed - op.frames
          /\ codec.write_len = op.frames
          /\ inp.m_sample_position = codec.write_off + op.frames

C2_Witness ==
  /\ op.kind = "tick" /\ op.frames > 0 /\ inp.m_setup_rate > 1
  /\ codec.write_off > 0 /\ inp.m_sample_position = MaxPosition

\* C3: under automatic rate detection the published frame rate is 29.97 when the
\* drop-frame bit is set, else 30 for frame numbers >= 25, 25 for 24, 24 below.
C3_AutoRate ==
  (op.kind = "tick" /\ op.decoded # <<>> /\ op.in.framerate = "Auto")
    => LET f == Last(op.decoded)
           n == FrameNumber(f)
       IN inp.outputs.frame_rate =
            (IF f.dfbit # 0 THEN 2997
             ELSE IF n >= 25 THEN 3000
             ELSE IF n = 24 THEN 2500
             ELSE 2400)

C3_Witness ==
  /\ op.kind = "tick" /\ op.decoded # <<>> /\ op.in.framerate = "Auto"
  /\ Last(op.decoded).dfbit = 1 /\ FrameNumber(Last(op.decoded)) = 24
  /\ inp.outputs.frame_rate = 2997

RecoveryTick ==
  /\ op.kind = "tick" /\ op.decoded = <<StreamFrame(0, 0)>>
  /\ op.was_silent /\ ~op.was_valid
  /\ op.in.offset = 0 /\ op.in.format = "Seconds"

\* C4 as stated: after more than 500 ms of silence, a tick decoding the frame
\* 00:00:10:00 (no drop bit) with zero offset and unit seconds ends with
\* timecode 10.0, valid, frameRate 25.0 and dropFrame false.
C4_AnyRateSetting ==
  RecoveryTick
    => /\ TenSeconds(inp.outputs.timecode) /\ inp.outputs.valid
       /\ inp.outputs.frame_rate = 2500 /\ inp.outputs.drop_frame = FALSE

\* C4 amended: the same with the rate-standard set to 25 fps; under automatic
\* detection the frame rate published for frame number 0 is 24.0.
C4_Recovery ==
  RecoveryTick
    => /\ TenSeconds(inp.outputs.timecode) /\ inp.outputs.valid
       /\ inp.outputs.drop_frame = FALSE
       /\ op.in.framerate = "FPS_25" => inp.outputs.frame_rate = 2500
       /\ op.in.framerate = "Auto" => inp.outputs.frame_rate = 2400

C4_Witness ==
  /\ RecoveryTick /\ op.in.framerate = "FPS_25"
  /\ inp.outputs.valid /\ inp.outputs.frame_rate = 2500
  /\ inp.m_sample_position > op.frames

\* What a tick publishes for a frame under the inputs it read.
Published(frame, in) ==
  publish_frame([LTCInput_init EXCEPT !.m_last_frame = frame], 0, in).outputs

\* C5: every tick leaves the codec's queue empty; a tick that drained frames
\* publishes the last one drained and nothing else; a tick that drained none
\* changes no output, except valid going false.
C5_LatestWins ==
  /\ [](/\ codec.queue = <<>>
        /\ (op.kind = "tick" /\ op.decoded # <<>>)
             => /\ inp.m_last_frame = Last(op.decoded)
                /\ inp.outputs = Published(Last(op.decoded), op.in))
  /\ [][(op'.kind = "tick" /\ op'.decoded = <<>>)
          => \/ inp'.outputs = inp.outputs
             \/ inp'.outputs = [inp.outputs EXCEPT !.valid = FALSE]]_vars

C5_Witness ==
  /\ op.kind = "tick" /\ Len(op.decoded) = 2 /\ codec.queue = <<>>
  /\ inp.m_last_frame = op.decoded[2] /\ inp.m_last_frame # op.decoded[1]
  /\ inp.outputs = Published(op.decoded[2], op.in)

(***************************************************************************)
(* Claims about the LTCGenerator.                                          *)
(***************************************************************************)
\* C6: whatever the tempos of the ticks, the byte index stays in 0..9, the
\* bytes handed to the encoder follow the cycle 0,1,...,9,0,..., the timecode
\* is advanced by one frame at the encoding of each byte 9 and at no other
\* step, and the advances number floor(encoded bytes / 10).
C6_ByteCycle ==
  /\ [](/\ gen.m_current_byte \in 0..9
        /\ gen.m_current_byte = tally.bytes % 10
        /\ op.kind = "encode" => enc.last_byte = (tally.bytes - 1) % 10
        /\ tally.incs = tally.bytes \div 10)
  /\ [][IF op'.kind = "encode" /\ enc'.last_byte = 9
          THEN enc'.advanced = enc.advanced + 1
          ELSE enc'.advanced = enc.advanced \/ enc'.advanced = 0]_vars

C6_Witness ==
  /\ op.kind = "encode" /\ tally.bytes = 20 /\ tally.incs = 2
  /\ tally.tempos = Tempos
  /\ gen.m_current_byte = 0 /\ enc.last_byte = 9

(***************************************************************************)
(* Claims about the XWaxDVS.                                               *)
(***************************************************************************)
Ticked == engine = "XWaxDVS" /\ op.kind = "tick"

EmptyRing == [i \in 0..(QUALITY_RING_SIZE - 1) |-> 0]

\* C7: the ring holds at most 32 scores, its write index is in 0..31, and
\* the quality output is a value of [0,1], in every state.
C7_QualityBounds ==
  /\ DOMAIN dvs.m_quality_ring = 0..31
  /\ dvs.m_quality_ring_filled \in 0..32
  /\ dvs.m_quality_ring_index \in 0..31
  /\ dvs.outputs.quality.den > 0
  /\ 0 <= dvs.outputs.quality.num
  /\ dvs.outputs.quality.num <= dvs.outputs.quality.den

C7_Witness ==
  /\ Ticked /\ op.submitted /\ since > QUALITY_RING_SIZE
  /\ dvs.m_quality_ring_filled = 32 /\ dvs.m_quality_ring_index = since % 32
  /\ dvs.outputs.quality.num > 0 /\ events = MaxEvents

\* C8 as stated: the first tick the rebuilt correlator hears pushes the
\* score 0, whatever it reports.
C8_FirstScoreZero ==
  (Ticked /\ op.submitted /\ since = 1) => dvs.m_quality_ring[0] = 0

\* C8: a tick that rebuilds the correlator and submits nothing leaves the
\* ring empty and the trackers reset; the first tick the rebuilt correlator
\* hears pushes, as the only score of the ring, 100 when the correlator is
\* locked and 0 when it is not, and the quality output is that score / 200.
C8_FirstScore ==
  /\ (Ticked /\ op.rebuilt /\ ~op.submitted)
       => /\ dvs.m_quality_ring = EmptyRing
          /\ dvs.m_quality_ring_filled = 0 /\ dvs.m_quality_ring_index = 0
          /\ dvs.m_quality_last_position = -1 /\ dvs.m_quality_last_pitch = 0
  /\ (Ticked /\ op.submitted /\ since = 1)
       => LET first == IF op.reading.position = NoLock THEN 0 ELSE 100
          IN /\ dvs.m_quality_ring = [EmptyRing EXCEPT ![0] = first]
             /\ dvs.m_quality_ring_filled = 1 /\ dvs.m_quality_ring_index = 1
             /\ dvs.outputs.quality.num * 200 = first * dvs.outputs.quality.den

C8_Witness ==
  /\ Ticked /\ op.rebuilt /\ op.submitted /\ since = 1
  /\ op.ev # <<>> /\ op.ev[1][1] = "free"
  /\ deck.position > NominalStep
  /\ op.reading.position # NoLock /\ op.reading.pitch # 0
  /\ dvs.m_quality_ring[0] = 100

\* C9: once the last 32 ticks the correlator heard were all locked, each
\* 10 ms after the one before and at its pitch, the quality output is 1/2,
\* and it is 1/2 after every further such tick.
C9_SteadyState ==
  (Ticked /\ op.submitted /\ steady >= QUALITY_RING_SIZE)
    => /\ 2 * dvs.outputs.quality.num = dvs.outputs.quality.den
       /\ \A i \in 0..(QUALITY_RING_SIZE - 1) : dvs.m_quality_ring[i] = 100

C9_Witness ==
  /\ Ticked /\ op.submitted /\ steady > QUALITY_RING_SIZE
  /\ since > steady
  /\ 2 * dvs.outputs.quality.num = dvs.outputs.quality.den

(***************************************************************************)
(* Claims about the three engines.                                         *)
(***************************************************************************)
\* The handles the instance holds: the decoder, the encoder, or the timecoder
\* and what timecoder_init set up in it.
Held ==
  CASE engine = "LTCInput" -> {inp.m_decoder} \ {Null}
    [] engine = "LTCGenerator" -> {gen.m_encoder} \ {Null}
    [] OTHER -> {dvs.m_timecoder, deck.tables} \ {Null}

\* C10: no handle is released twice or when not held; the handles that exist
\* are exactly those the instance holds, and none once it is destroyed; a
\* release is made by the destructor, or is the first thing done by prepare,
\* by a parameter's update, or by the tick that finds the vinyl parameters
\* changed.
C10_Ownership ==
  /\ ~heap.bad
  /\ heap.live = (IF alive THEN Held ELSE {})
  /\ \A k \in 1..Len(op.ev) :
       op.ev[k][1] = "free"
         => \/ op.kind = "teardown"
            \/ /\ k = 1
               /\ op.kind \in {"prepare", "reconfigure"} \/ (Ticked /\ op.changed)

C10_Witness ==
  /\ engine = "XWaxDVS" /\ ~alive /\ op.kind = "teardown"
  /\ op.ev = << <<"free", 2>>, <<"free", 1>> >>
  /\ since > 0
  /\ heap.live = {}

(***************************************************************************)
(* Claims about failure and repetition.                                    *)
(***************************************************************************)
\* C11: after every tick of an engine that could not be initialised (an
\* LTCInput without decoder, an XWaxDVS without initialised timecoder) the
\* outputs are at their safe defaults: valid is false, and for the XWaxDVS
\* every output is zero or invalid.
C11_DisabledSafe ==
  /\ (engine = "LTCInput" /\ op.kind = "tick" /\ inp.m_decoder = Null)
       => ~inp.outputs.valid
  /\ (Ticked /\ ~dvs.m_initialized) => dvs.outputs = XWaxDVS_outputs_zero

\* C12 as stated: two LTCInput instances given the same calls and the same
\* per-tick inputs show the same outputs after every call.
C12_Determinism == twin.inp.outputs = inp.outputs

\* C12: two LTCInput instances given the same calls and the same per-tick
\* inputs, with the same time elapsing between two calls though not at the
\* same times, show the same outputs after every call, and hold the same
\* state but for the time of the last frame, which is as much later as the
\* clock.
C12_SameTiming ==
  ~twin.skewed
    => /\ twin.inp.outputs = inp.outputs
       /\ twin.clock = clock + ClockShift
       /\ [twin.inp EXCEPT !.m_last_valid_time = 0] = [inp EXCEPT !.m_last_valid_time = 0]
       /\ twin.codec = codec
       /\ inp.m_decoder # Null
            => twin.inp.m_last_valid_time = inp.m_last_valid_time + ClockShift

C12_Witness ==
  /\ ~twin.skewed /\ clock > TimeoutMs /\ twin.clock > clock
  /\ op.kind = "tick" /\ op.was_valid /\ ~inp.outputs.valid /\ ~twin.inp.outputs.valid

\* C13: a prepare with the sample rate of the prepare just before it changes
\* nothing of the engine: not the object, not its codec or correlator, not
\* the handles held; so all that follows is as after the first prepare alone.
C13_PrepareIdempotent ==
  [][(op'.kind = "prepare" /\ op'.again)
       => /\ inp' = inp /\ codec' = codec
          /\ gen' = gen /\ enc' = enc /\ run' = run /\ audio' = audio
          /\ dvs' = dvs /\ deck' = deck
          /\ heap' = heap /\ clock' = clock /\ alive' = alive]_vars

C13_Witness ==
  /\ op.kind = "prepare" /\ op.again
  /\ \/ engine = "LTCInput" /\ inp.m_decoder # Null /\ inp.outputs.valid
     \/ engine = "LTCGenerator" /\ tally.bytes > 0 /\ gen.m_current_byte > 0
     \/ engine = "XWaxDVS" /\ dvs.m_initialized /\ since > 0

\* The tick went through timecoder_submit and read the correlator.
Processed == Ticked /\ op.submitted

\* C14: after every processed tick, valid is true exactly when the position
\* read from the correlator is not the no-lock value -1; when locked, the
\* Position output is position_ms / 1000 minus the lead-in seconds; when
\* unlocked, Position is 0, Timecode is -1 and valid is false.
C14_LockReport ==
  Processed =>
    /\ dvs.outputs.valid <=> (op.reading.position # NoLock)
    /\ dvs.outputs.valid <=> (op.reading.position >= 0)
    /\ op.reading.position >= 0 =>
         /\ dvs.outputs.position.den > 0
         /\ dvs.outputs.position.num * 1000
              = (op.reading.position - dvs.inputs.leadin * 1000) * dvs.outputs.position.den
    /\ op.reading.position < 0 =>
         /\ dvs.outputs.position.num = 0
         /\ dvs.outputs.timecode = -1
         /\ ~dvs.outputs.valid

C14_Witness ==
  /\ Processed
  /\ op.reading.position > 0
  /\ dvs.inputs.leadin > 0
  /\ dvs.outputs.valid
  /\ dvs.outputs.position.num < 0

\* Some processed tick has left the lock unreported.
C14_WitnessUnlocked ==
  Processed /\ op.reading.position = NoLock /\ since > 1 /\ ~dvs.outputs.valid

\* C15: whenever the correlator is locked, the Timecode output is the
\* position it reported, in integer milliseconds, without the lead-in
\* subtracted and without scaling.
C15_TimecodeMs ==
  (Processed /\ op.reading.position >= 0) => dvs.outputs.timecode = op.reading.position

\* What operator() writes instead: the position in whole seconds.
C15_TimecodeSeconds ==
  (Processed /\ op.reading.position >= 0)
     => dvs.outputs.timecode = op.reading.position \div 1000

(***************************************************************************)
(* LTCInput decoding single frames from a wide range of times, under every *)
(* unit, offset and frame-rate setting.                                    *)
(***************************************************************************)
\* Frames at hh:mm:10:nn.
ConvertFrames ==
  { LTCFrame(h, m, 10, n \div 10, n % 10, 0, 0, -6) : h \in {0, 1}, m \in {0, 2}, n \in {0, 12, 24} }

ConvertOffsets == {-9, -8, 5}

ConvertInputs ==
  { [offset |-> o, format |-> f, framerate |-> r] :
      o \in ConvertOffsets, f \in OutputFormat, r \in {"Auto", "FPS_25", "FPS_2997"} }

ConvertNext ==
  \/ InputPrepare(48000) /\ UNCHANGED twin
  \/ \E f \in ConvertFrames : \E in \in ConvertInputs : InputTick(1, <<f>>, in) /\ UNCHANGED twin

SpecConvert == InputInit /\ [][ConvertNext]_vars

\* The tick decoded a frame and published it.
DecodedOne ==
  /\ engine = "LTCInput" /\ op.kind = "tick" /\ op.decoded # <<>>
  /\ inp.m_decoder # Null /\ op.frames > 0

\* The factor of each unit.
UnitFactor(format) ==
  CASE format = "Seconds" -> 1
    [] format = "Milliseconds" -> 1000
    [] format = "Microseconds" -> 1000 * 1000
    [] format = "Nanoseconds" -> 1000 * 1000 * 1000
    [] format = "Flicks" -> 705600000

\* C16: the published timecode is s times the factor of the selected unit,
\* 1, 1000, 10^6, 10^9 or 705600000, where
\* s = h*3600 + m*60 + sec + frame/fps + offset; 2 s in milliseconds is 2000
\* and 1 s in flicks is 705600000.
C16_UnitConversion ==
  DecodedOne =>
    LET f == inp.m_last_frame
        t == inp.outputs.timecode
        fps == inp.outputs.frame_rate
        whole == f.hours * 3600 + f.mins * 60 + f.secs + op.in.offset
    IN /\ f = op.decoded[Len(op.decoded)]
       /\ t.mul = UnitFactor(op.in.format)
       /\ t.den > 0 /\ fps > 0
       /\ (t.num - whole * t.den) * fps = FrameNumber(f) * 100 * t.den
       /\ (op.in.format = "Milliseconds" /\ t.num = 2 * t.den)
            => (t.num \div t.den) * t.mul = 2000
       /\ (op.in.format = "Flicks" /\ t.num = t.den)
            => (t.num \div t.den) * t.mul = 705600000

C16_Witness ==
  /\ DecodedOne
  /\ op.in.format = "Flicks"
  /\ inp.outputs.timecode.num = inp.outputs.timecode.den
  /\ inp.outputs.timecode.mul = 705600000

\* 2 s published in milliseconds.
C16_WitnessMs ==
  /\ DecodedOne
  /\ op.in.format = "Milliseconds"
  /\ inp.outputs.timecode.num = 2 * inp.outputs.timecode.den
  /\ inp.outputs.timecode.mul = 1000

(***************************************************************************)
(* LTCGenerator ticked at the reference tempo and at a tempo of 1, where   *)
(* speed = 120 / tempo stretches one bit beyond the encoder's buffer.      *)
(***************************************************************************)
SlowTempos == {1, 120}

TempoNext ==
  \/ \E rate \in GenRates : GenPrepare(rate)
  \/ \E frames \in GenFrameCounts : \E tempo \in SlowTempos : GenTickBegin(frames, tempo, 0)
  \/ GenEncodeByte
  \/ GenEmit
  \/ GenTickEnd

SpecTempo == GenInit /\ [][TempoNext]_vars

\* operator() is at while(m_buffer.empty()) with the buffer empty.
Refilling ==
  /\ engine = "LTCGenerator"
  /\ run.pc = "loop" /\ run.frame < run.frames
  /\ gen.m_buffer.data = <<>>

\* No byte of the frame encodes to a sample at this tempo. The sample count of
\* a byte depends on the encoder's rate, fps and buffer size and on the tempo,
\* none of which a pass of the loop changes, so the loop passes for ever.
NoByteEncodes ==
  \A byte \in 0..9 : ltc_encoder_encode_byte(enc, byte, run.tempo).pending = <<>>

C17_SamplesWritten ==
  /\ (engine = "LTCGenerator" /\ run.pc = "loop") => Len(audio) = run.frame
  /\ (engine = "LTCGenerator" /\ op.kind = "ticked") => Len(audio) = op.frames
  /\ \A i \in 1..Len(audio) : audio[i] \in {to_audio(SampleLo), to_audio(SampleHi)}

\* The loop has passed through a whole frame and more without a sample.
C17_Spinning == Refilling /\ NoByteEncodes /\ run.frame = 0 /\ tally.bytes > 10

\* The reading of the tick before this one, if the correlator has given one
\* since it was last built, was a locked one.
PrevLocked == op.prev.any /\ op.prev.position # NoLock

\* C18 as stated: the position term of a processed tick is 0 if the correlator
\* is unlocked, 100 if this tick's position is at least 5 ms from the previous
\* tick's, and 50 otherwise, the first locked tick after a reinitialization
\* or after a loss of lock included.
C18_PositionTermHalfOnRelock ==
  Processed =>
    op.position_quality =
      (IF op.reading.position = NoLock THEN 0
       ELSE IF PrevLocked /\ Abs(op.reading.position - op.prev.position) >= 5 THEN 100
       ELSE 50)

\* C18, corrected: the position term of a processed tick is 0 if the
\* correlator is unlocked, 100 if the tick before gave no locked position
\* since the last reinitialization or this tick's position is at least 5 ms
\* from it, and 50 otherwise.
C18_PositionTerm ==
  Processed =>
    op.position_quality =
      (IF op.reading.position = NoLock THEN 0
       ELSE IF ~PrevLocked \/ Abs(op.reading.position - op.prev.position) >= 5 THEN 100
       ELSE 50)

\* The first locked tick after a loss of lock.
C18_Witness ==
  /\ Processed
  /\ op.prev.any /\ op.prev.position = NoLock
  /\ op.reading.position >= 0
  /\ op.position_quality = 100

\* A locked tick less than 5 ms after a locked one.
C18_WitnessSmallStep ==
  Processed /\ PrevLocked /\ op.reading.position >= 0 /\ op.position_quality = 50

RECURSIVE SumOf(_)
SumOf(scores) == IF scores = <<>> THEN 0 ELSE Head(scores) + SumOf(Tail(scores))

Min(a, b) == IF a < b THEN a ELSE b

\* C19: after the n-th processed tick since the last reinitialization, the
\* quality output is the sum of the scores of the last min(n, 32) processed
\* ticks over 200 * min(n, 32): the ring agrees with the sliding window.
C19_WindowedAverage ==
  Processed =>
    /\ Len(window) = Min(since, QUALITY_RING_SIZE)
    /\ window[Len(window)] = op.position_quality + op.pitch_quality
    /\ dvs.outputs.quality.den > 0
    /\ dvs.outputs.quality.num * (200 * Min(since, QUALITY_RING_SIZE))
         = SumOf(window) * dvs.outputs.quality.den

\* The oldest scores have been overwritten and the window holds unequal ones.
C19_Witness ==
  /\ Processed
  /\ since > QUALITY_RING_SIZE
  /\ \E i \in 1..Len(window) : window[i] # window[1]
  /\ dvs.outputs.quality.num # dvs.outputs.quality.den

\* C20: the pitch term of a processed tick is 0 if no tick before it was
\* processed since the last reinitialization or if the pitch is that of the
\* tick before; otherwise, with stability = |pitch / (pitch - previous pitch)|,
\* it is 0 below 3, 100 above 6 and 75 from 3 to 6, the previous pitch being
\* that of the processed tick just before.
C20_PitchTerm ==
  Processed =>
    op.pitch_quality =
      (IF ~op.prev.any \/ op.reading.pitch = op.prev.pitch THEN 0
       ELSE LET diff == op.reading.pitch - op.prev.pitch
            IN IF Abs(op.reading.pitch) < 3 * Abs(diff) THEN 0
               ELSE IF Abs(op.reading.pitch) > 6 * Abs(diff) THEN 100
               ELSE 75)

\* A stability of exactly 3: pitch 1.5 after 1.0.
C20_Witness ==
  /\ Processed /\ op.prev.any
  /\ op.reading.pitch = 1500 /\ op.prev.pitch = 1000
  /\ op.pitch_quality = 75

C20_WitnessUnstable ==
  Processed /\ op.prev.any /\ op.reading.pitch = 600 /\ op.prev.pitch = 1000
    /\ op.pitch_quality = 0

C20_WitnessStable ==
  Processed /\ op.prev.any /\ op.reading.pitch = 1150 /\ op.prev.pitch = 1000
    /\ op.pitch_quality = 100

\* This step is a tick of the XWaxDVS instance.
DvsTickStep == engine = "XWaxDVS" /\ op'.kind = "tick"

\* Before the step: vinyl format, RPM or pitch filter differ from the values
\* the previous tick saw, or prepare was called since the previous tick.
Triggered == op.fresh \/ op.seen # {Selected(dvs.inputs)}

\* The step built a correlator.
Created == \E i \in DOMAIN op'.ev : op'.ev[i][1] = "create"

\* The step freed the correlator's tables.
Freed == \E i \in DOMAIN op'.ev : op'.ev[i] = <<"free", deck.tables>>

\* After the step the ring and the trackers hold nothing from before it.
HistoryReset ==
  IF op'.submitted
    THEN /\ dvs'.m_quality_ring_filled = 1 /\ dvs'.m_quality_ring_index = 1
         /\ dvs'.m_quality_ring
              = [EmptyRing EXCEPT ![0] = op'.position_quality + op'.pitch_quality]
         /\ op'.pitch_quality = 0
         /\ op'.position_quality = IF op'.reading.position = NoLock THEN 0 ELSE 100
    ELSE /\ dvs'.m_quality_ring_filled = 0 /\ dvs'.m_quality_ring_index = 0
         /\ dvs'.m_quality_ring = EmptyRing
         /\ dvs'.m_quality_last_position = -1 /\ dvs'.m_quality_last_pitch = 0

\* The step left the ring and the trackers as they were.
HistoryKept ==
  /\ dvs'.m_quality_ring = dvs.m_quality_ring
  /\ dvs'.m_quality_ring_index = dvs.m_quality_ring_index
  /\ dvs'.m_quality_ring_filled = dvs.m_quality_ring_filled
  /\ dvs'.m_quality_last_position = dvs.m_quality_last_position
  /\ dvs'.m_quality_last_pitch = dvs.m_quality_last_pitch

\* The step did no more to the ring than add this tick's score.
HistoryContinued ==
  IF op'.submitted
    THEN /\ dvs'.m_quality_ring
              = [dvs.m_quality_ring EXCEPT ![dvs.m_quality_ring_index]
                                             = op'.position_quality + op'.pitch_quality]
         /\ dvs'.m_quality_ring_index = (dvs.m_quality_ring_index + 1) % QUALITY_RING_SIZE
         /\ dvs'.m_quality_ring_filled
              = (IF dvs.m_quality_ring_filled < QUALITY_RING_SIZE
                   THEN dvs.m_quality_ring_filled + 1 ELSE dvs.m_quality_ring_filled)
         /\ op'.prev = deck.heard
    ELSE HistoryKept

\* The step did not touch the correlator.
Untouched ==
  /\ op'.ev = <<>>
  /\ deck'.tables = deck.tables /\ deck'.def = deck.def
  /\ dvs'.m_initialized = dvs.m_initialized
  /\ dvs'.m_timecode_def = dvs.m_timecode_def
  /\ HistoryContinued

\* C21 as stated: a tick tears down and rebuilds the correlator and resets
\* the ring and the trackers if and only if vinyl format, RPM or pitch filter
\* differ from the previous tick's or prepare was called since; a tick with
\* the three unchanged leaves correlator and quality history untouched.
C21_RebuildIffTriggered ==
  [][DvsTickStep =>
       /\ Triggered <=> (Created /\ HistoryReset)
       /\ ~Triggered => Untouched]_vars

\* C21, corrected: a triggered tick always tears down the correlator it has,
\* but builds a new one and resets the history only if the sample rate is
\* above 0 and a timecode definition is found; else the engine stays without
\* a correlator, the history stays as it was and the outputs are zeroed.
C21_ReconfigurationTrigger ==
  [][DvsTickStep =>
       /\ ~Triggered => Untouched
       /\ Triggered =>
            /\ dvs.m_initialized => Freed
            /\ IF dvs.m_setup_rate > 0 /\ op'.lookup # "none"
                 THEN Created /\ HistoryReset /\ dvs'.m_initialized
                 ELSE /\ ~Created /\ ~dvs'.m_initialized /\ HistoryKept
                      /\ dvs'.outputs = XWaxDVS_outputs_zero]_vars

\* A tick rebuilt a correlator that had a history, after an RPM, format or
\* filter change.
C21_Witness ==
  /\ Ticked /\ op.trigger /\ op.rebuilt /\ op.submitted
  /\ op.was_filled > 1
  /\ dvs.m_quality_ring_filled = 1

\* A tick after a change of lead-in or tempo only.
C21_WitnessUntouched ==
  /\ Ticked /\ ~op.trigger /\ op.submitted /\ op.was_filled > 1
  /\ dvs.inputs.leadin # 0

\* A triggered tick that found no timecode definition.
C21_WitnessFailed ==
  /\ Ticked /\ op.trigger /\ ~dvs.m_initialized
  /\ dvs.m_setup_rate > 0 /\ op.lookup = "none"

(***************************************************************************)
(* LTCGenerator reconfigured with offsets from the whole range of the      *)
(* spinbox, between ticks that start at 0 s and at 1.5 s.                   *)
(***************************************************************************)
WideOffsets == {-128000, -1, 0, 3661, 90061, 128000}

OffsetNext ==
  \/ \E rate \in GenRates : GenPrepare(rate)
  \/ \E o \in WideOffsets : GenSetOffset(o)
  \/ \E frames \in GenFrameCounts : \E start \in TickStarts : GenTickBegin(frames, 120, start)
  \/ GenEncodeByte
  \/ GenEmit
  \/ GenTickEnd

SpecOffset == GenInit /\ [][OffsetNext]_vars

\* prepare or an update hook has just set the encoder's timecode.
TimecodeSet ==
  /\ engine = "LTCGenerator"
  /\ op.kind \in {"prepare", "reconfigure"}
  /\ gen.m_encoder # Null

\* Hours, minutes and seconds of the second s of a day, frame 0.
SecondsOfDay(s) ==
  LET t == s % 86400
  IN [hours |-> t \div 3600, mins |-> (t % 3600) \div 60, secs |-> t % 60, frame |-> 0]

\* C22: prepare and reconfigure set the encoder's SMPTE time to the
\* seconds-of-day decomposition of the configured offset alone, for every
\* offset in -128000..128000: hours in 0..23, minutes in 0..59, seconds in
\* 0..59, frame 0, whatever the position of the ticks processed before.
C22_InitialTime ==
  TimecodeSet =>
    /\ enc.tc = SecondsOfDay(gen.offset)
    /\ enc.tc.hours \in 0..23 /\ enc.tc.mins \in 0..59 /\ enc.tc.secs \in 0..59
    /\ enc.tc.frame = 0

\* The fields are in range whenever the offset is not negative.
C22_InRangeFromZero ==
  (TimecodeSet /\ gen.offset >= 0) =>
    /\ enc.tc.hours \in 0..23 /\ enc.tc.mins \in 0..59 /\ enc.tc.secs \in 0..59
    /\ enc.tc.frame = 0

\* What update() sets when the sum is not negative: the time of day of the
\* offset plus the whole seconds of the last tick's start position.
C22_TimeOfPositionPlusOffset ==
  (TimecodeSet /\ gen.offset + gen.m_current_flicks \div FlicksPerSecond >= 0) =>
    enc.tc = SecondsOfDay(gen.offset + gen.m_current_flicks \div FlicksPerSecond)

\* An offset of -1 s has been set: the seconds field is 255.
C22_NegativeOffset ==
  TimecodeSet /\ gen.offset = -1 /\ gen.m_current_flicks = 0 /\ enc.tc.secs = 255

\* The same offset gives another time after a tick that started at 1.5 s.
C22_AfterTick ==
  TimecodeSet /\ gen.offset = 3661 /\ gen.m_current_flicks > 0
    /\ enc.tc = [hours |-> 1, mins |-> 1, secs |-> 2, frame |-> 0]

\* The samples the encoder hands out for the byte about to be encoded.
Produced == ltc_encoder_encode_byte(enc, gen.m_current_byte, run.tempo).pending

\* C23: between reconfigurations the buffer is refilled only when it is empty
\* and never holds more than its capacity; a refill puts into it exactly the
\* samples the encoder produced for the byte, in their order; each output
\* sample is the front of the buffer, which is then popped; and nothing else
\* changes the buffer, across the ends and beginnings of ticks too. So the
\* samples written are those produced, in production order.
C23_ElasticQueue ==
  /\ [](engine = "LTCGenerator" => Len(gen.m_buffer.data) <= gen.m_buffer.capacity)
  /\ [][engine = "LTCGenerator" =>
          CASE op'.kind = "encode" ->
                 /\ gen.m_buffer.data = <<>>
                 /\ gen'.m_buffer.data = Produced
                 /\ Len(Produced) <= gen.m_buffer.capacity
                 /\ audio' = audio
            [] op'.kind = "emit" ->
                 /\ gen.m_buffer.data # <<>>
                 /\ audio' = Append(audio, to_audio(gen.m_buffer.data[1]))
                 /\ gen'.m_buffer.data = Tail(gen.m_buffer.data)
            [] op'.kind \in {"tick", "ticked"} ->
                 gen'.m_buffer = gen.m_buffer
            [] OTHER -> TRUE]_vars

\* The first sample of a tick is one the encoder produced during an earlier
\* tick, and more of them are still queued.
C23_Witness ==
  /\ engine = "LTCGenerator" /\ op.kind = "emit"
  /\ run.frame = 1 /\ Len(audio) = 1
  /\ Len(gen.m_buffer.data) = 2
  /\ tally.bytes >= 1

\* C24: whenever prepare or an update hook sets the encoder's timecode, the
\* next byte encoded is byte 0, so that every frame is bytes 0..9 of one
\* timecode and the first advance of the timecode after a reconfiguration
\* comes after exactly 10 newly encoded bytes.
C24_FrameAligned ==
  /\ [](TimecodeSet => gen.m_current_byte = 0)
  /\ [][(engine = "LTCGenerator" /\ op'.kind = "encode" /\ enc.advanced = 0
           /\ enc'.advanced = 1)
          => tally'.bytes % 10 = 0 /\ enc'.last_byte = 9]_vars

\* What update() leaves: the byte index where the last tick stopped.
C24_IndexKept ==
  [][(engine = "LTCGenerator" /\ op'.kind \in {"prepare", "reconfigure"})
       => gen'.m_current_byte = gen.m_current_byte]_vars

\* A frame torn between two timecodes: its byte 0 was encoded at offset 0,
\* its byte 1 is encoded from 01:01:01:00.
C24_TornFrame ==
  /\ engine = "LTCGenerator" /\ op.kind = "encode"
  /\ tally.bytes = 2 /\ enc.last_byte = 1
  /\ enc.advanced = 0
  /\ enc.tc = [hours |-> 1, mins |-> 1, secs |-> 1, frame |-> 0]

====
